---- MODULE Spec2Model ----
(***************************************************************************)
(* Model of ai-backend/main.py: the /match-face handler (match_face) and   *)
(* the functions it calls (decode_image, extract_embedding,                *)
(* safe_numpy_embedding, normalize_embedding, cosine_similarity), under    *)
(* Spec; and the startup of the process (on_startup, init_firebase,        *)
(* get_model) with the requests that call get_model, under SpecStartup.    *)
(*                                                                         *)
(* Numbers.  A Python float is modelled by an exact rational [n, d] with   *)
(* d > 0.  An embedding list or array of `len` elements is the record      *)
(* [type, len, head, exp]: its first Len(head) elements are `head`, every  *)
(* later element is 0.0, and every element is taken times 2^exp.  An       *)
(* element is [k, v]: k = "float" (the number v), "nan" (a non-finite      *)
(* float) or "str" (a value float32 conversion rejects).  The inputs are   *)
(* chosen with integer L2 norms, so that normalisation and the dot product *)
(* are exact; of float32 the model keeps the range (overflow to inf,       *)
(* underflow to 0), not the rounding.                                      *)
(***************************************************************************)
EXTENDS Integers, Sequences, FiniteSets, TLC

VARIABLES pc, threshold, payload, file, detected, largest_face,
          query_embedding_raw, query_embedding, data, skipped, response,
          storeCalls, storeErrors, detectorCalls,
          startup, firebase_apps, _model, constructed, calls

\* the state of one request of match_face
request_vars == <<pc, threshold, payload, file, detected, largest_face,
                  query_embedding_raw, query_embedding, data, skipped, response,
                  storeCalls, storeErrors, detectorCalls>>

\* the state of the process: on_startup's position, firebase_admin._apps, the
\* global _model, the FaceAnalysis constructions so far, and the position of
\* every caller of get_model
process_vars == <<startup, firebase_apps, _model, constructed, calls>>

vars == <<request_vars, process_vars>>

\* ---------------------------------------------------------------------------
\* Program constants
\* ---------------------------------------------------------------------------
EMBEDDING_DIM == 512

TOP_K == 5

ROUND_DIGITS == 4

\* np.float32 (327): finite below 2^128, least subnormal 2^-149
FLOAT32_MAX_EXP == 128

FLOAT32_MIN_EXP == -150

\* SIMILARITY_THRESHOLD = 0.55
SIMILARITY_THRESHOLD == [n |-> 11, d |-> 20]

\* ---------------------------------------------------------------------------
\* Bounds of the model
\* ---------------------------------------------------------------------------
\* most records of one store snapshot
MaxRecords == 6

\* most malformed records of one store snapshot
MaxMalformed == 1

\* requests in flight at once, and a cap on the constructions of the detector
MaxRequests == 5

MaxConstructed == 3

\* ---------------------------------------------------------------------------
\* Python values
\* ---------------------------------------------------------------------------
F(v) == [k |-> "float", v |-> v]

NaN == [k |-> "nan", v |-> 0]

Str == [k |-> "str", v |-> 0]

None == [type |-> "none", len |-> 0, head |-> <<>>, exp |-> 0]

NotAList == [type |-> "str", len |-> 0, head |-> <<>>, exp |-> 0]

\* a list of n numbers: the elements of h, then zeros; every element is taken
\* times 2^exp (exp = 0 unless Scaled says otherwise)
List(n, h) == [type |-> "list", len |-> n, head |-> h, exp |-> 0]

NdArray(n, h) == [type |-> "ndarray", len |-> n, head |-> h, exp |-> 0]

Floats(s) == [i \in 1..Len(s) |-> F(s[i])]

\* the list l with every element multiplied by 2^e
Scaled(l, e) == [l EXCEPT !.exp = e]

\* ---------------------------------------------------------------------------
\* Arithmetic helpers
\* ---------------------------------------------------------------------------
RECURSIVE Pow10(_)
Pow10(k) == IF k = 0 THEN 1 ELSE 10 * Pow10(k - 1)

RECURSIVE SqrtSearch(_, _, _)
\* the largest r in lo..hi with r*r <= n
SqrtSearch(n, lo, hi) ==
    IF lo >= hi THEN lo
    ELSE LET mid == (lo + hi + 1) \div 2
         IN IF mid * mid <= n THEN SqrtSearch(n, mid, hi)
                              ELSE SqrtSearch(n, lo, mid - 1)

\* sqrt of a perfect square (the model's inputs have integer norms)
Sqrt(n) == SqrtSearch(n, 0, IF n < 1000 THEN n ELSE 1000)

RECURSIVE SumSq(_)
SumSq(s) == IF s = <<>> THEN 0 ELSE Head(s) * Head(s) + SumSq(Tail(s))

RECURSIVE DotSeq(_, _)
DotSeq(a, b) ==
    IF a = <<>> \/ b = <<>> THEN 0
    ELSE Head(a) * Head(b) + DotSeq(Tail(a), Tail(b))

RatGE(a, b) == a.n * b.d >= b.n * a.d

Abs(x) == IF x < 0 THEN -x ELSE x

RECURSIVE GEPow2(_, _)
\* m >= 2^k for a natural m >= 1 and any integer k (halving m, so that no power
\* of two is ever computed; k < 2^k settles m <= k at once)
GEPow2(m, k) ==
    IF k <= 0 THEN m >= 1
    ELSE IF m <= k THEN FALSE
    ELSE GEPow2(m \div 2, k - 1)

\* np.float32 of the number m * 2^e: "inf" from 2^128 on, "zero" for 0 and for
\* what rounds to 0 (up to 2^-150, half the least subnormal), else "finite"
float32(m, e) ==
    IF m = 0 THEN "zero"
    ELSE IF GEPow2(Abs(m), FLOAT32_MAX_EXP - e) THEN "inf"
    ELSE IF ~GEPow2(Abs(m), FLOAT32_MIN_EXP - e) THEN "zero"
    ELSE "finite"

\* round(x, ROUND_DIGITS): nearest multiple of 10^-ROUND_DIGITS, ties to even
round(x) ==
    LET scale == Pow10(ROUND_DIGITS)
        y == x.n * scale
        q == y \div x.d
        r == y % x.d
        k == IF 2 * r < x.d THEN q
             ELSE IF 2 * r > x.d THEN q + 1
             ELSE IF q % 2 = 0 THEN q ELSE q + 1
    IN [n |-> k, d |-> scale]

\* ---------------------------------------------------------------------------
\* Results of the functions that can raise
\* ---------------------------------------------------------------------------
NoVector == [len |-> 0, num |-> <<>>, den |-> 1, exp |-> 0]

Ok(v) == [ok |-> TRUE, err |-> "", label |-> "", val |-> v]

ValueError(kind, label) == [ok |-> FALSE, err |-> kind, label |-> label, val |-> NoVector]

\* ---------------------------------------------------------------------------
\* decode_image (198-229): cv2.imdecode yields None on undecodable bytes, and any
\* other exception is re-raised as 400 too
\* ---------------------------------------------------------------------------
\* faulty variant: an undecodable upload reported as a server error
decode_image_500(contents) ==
    IF contents = "garbage"
    THEN [ok |-> FALSE, status |-> 500, kind |-> "DecodeError", image |-> ""]
    ELSE [ok |-> TRUE, status |-> 200, kind |-> "", image |-> contents]

decode_image(contents) ==
    IF contents = "garbage"
    THEN [ok |-> FALSE, status |-> 400, kind |-> "DecodeError", image |-> ""]
    ELSE [ok |-> TRUE, status |-> 200, kind |-> "", image |-> contents]

\* ---------------------------------------------------------------------------
\* extract_embedding (235-288)
\* ---------------------------------------------------------------------------
Area(f) == (f.bbox[3] - f.bbox[1]) * (f.bbox[4] - f.bbox[2])

RECURSIVE MaxScan(_, _, _)
\* Python's max(faces, key=...): the running best is replaced only by a strictly
\* larger key, so the first maximal element wins
MaxScan(faces, i, best) ==
    IF i > Len(faces) THEN best
    ELSE MaxScan(faces, i + 1, IF Area(faces[i]) > Area(faces[best]) THEN i ELSE best)

RECURSIVE MaxScanLast(_, _, _)
MaxScanLast(faces, i, best) ==
    IF i > Len(faces) THEN best
    ELSE MaxScanLast(faces, i + 1, IF Area(faces[i]) >= Area(faces[best]) THEN i ELSE best)

\* faulty variant: the last maximal element wins
PyMax_last(faces) == MaxScanLast(faces, 2, 1)

PyMax(faces) == MaxScan(faces, 2, 1)

ExtractResult(status, kind, largest, embedding) ==
    [status |-> status, kind |-> kind, largest |-> largest, embedding |-> embedding]

\* got: what get_model() and model.get(image) did: one of them raised, or the
\* detector returned the faces
extract_embedding(got) ==
    IF got.raised
    THEN ExtractResult(500, "ExtractionError", 0, None)
    ELSE IF Len(got.faces) = 0
    THEN ExtractResult(400, "NoFaceDetected", 0, None)
    ELSE LET largest == PyMax(got.faces)
             embedding == got.faces[largest].embedding
         IN IF embedding.type = "none"
            THEN ExtractResult(500, "NoEmbedding", largest, None)
            ELSE IF embedding.len # EMBEDDING_DIM
            THEN ExtractResult(500, "DimensionMismatch", largest, None)
            ELSE ExtractResult(200, "", largest, [embedding EXCEPT !.type = "list"])

\* ---------------------------------------------------------------------------
\* cosine_similarity (294-307): the dot product
\* ---------------------------------------------------------------------------
cosine_similarity(a, b) == [n |-> DotSeq(a.num, b.num), d |-> a.den * b.den]

\* ---------------------------------------------------------------------------
\* safe_numpy_embedding (310-338).  The lists of the model are flat, so the
\* array has one dimension and its shape is the list's length.
\* ---------------------------------------------------------------------------
\* np.asarray(raw_embedding, dtype=np.float32) (327): a number too small for
\* float32 becomes 0
asarray(raw_embedding) ==
    [len |-> raw_embedding.len,
     num |-> [i \in 1..Len(raw_embedding.head) |->
                IF float32(raw_embedding.head[i].v, raw_embedding.exp) = "zero"
                THEN 0 ELSE raw_embedding.head[i].v],
     den |-> 1,
     exp |-> raw_embedding.exp]

\* np.all(np.isfinite(vector)) (333): no nan, and no number that float32 turns
\* into inf
isfinite(raw_embedding) ==
    \A i \in 1..Len(raw_embedding.head) :
        /\ raw_embedding.head[i].k = "float"
        /\ float32(raw_embedding.head[i].v, raw_embedding.exp) # "inf"

\* faulty variant: the finiteness check placed before the shape check
safe_numpy_embedding_finite_first(raw_embedding, label) ==
    IF raw_embedding.type # "list"
    THEN ValueError("NotAList", label)
    ELSE IF \E i \in 1..Len(raw_embedding.head) : raw_embedding.head[i].k = "str"
    THEN ValueError("NonNumeric", label)
    ELSE IF ~isfinite(raw_embedding)
    THEN ValueError("NonFiniteValue", label)
    ELSE IF raw_embedding.len # EMBEDDING_DIM
    THEN ValueError("DimensionMismatch", label)
    ELSE Ok(asarray(raw_embedding))

safe_numpy_embedding(raw_embedding, label) ==
    IF raw_embedding.type # "list"
    THEN ValueError("NotAList", label)
    ELSE IF \E i \in 1..Len(raw_embedding.head) : raw_embedding.head[i].k = "str"
    THEN ValueError("NonNumeric", label)
    ELSE IF raw_embedding.len # EMBEDDING_DIM
    THEN ValueError("DimensionMismatch", label)
    ELSE IF ~isfinite(raw_embedding)
    THEN ValueError("NonFiniteValue", label)
    ELSE Ok(asarray(raw_embedding))

\* ---------------------------------------------------------------------------
\* normalize_embedding (341-358): norm = np.linalg.norm(vector), which for a
\* float32 vector is sqrt(vector.dot(vector)) in float32; then vector / norm.
\* With vector = num * 2^exp / den the sum of squares is
\* SumSq(num) * 2^(2 exp) / den^2: float32 turns it into inf or into 0 when it
\* leaves the range, and then norm is inf (vector / inf is all zeros) or 0.
\* Otherwise the norm is Sqrt(SumSq(num)) * 2^exp / den and the quotient is
\* num / Sqrt(SumSq(num)).
\* ---------------------------------------------------------------------------
norm_float32(vector) ==
    LET sq == SumSq(vector.num)
        dd == vector.den * vector.den
        hi == float32(sq \div dd, 2 * vector.exp)
    IN IF sq = 0 THEN "zero"
       ELSE IF hi = "inf" THEN "inf"
       ELSE IF sq % dd = 0 THEN hi
       ELSE float32(sq \div dd + 1, 2 * vector.exp)

normalize_embedding(vector, label) ==
    LET norm == [n |-> Sqrt(SumSq(vector.num)), d |-> vector.den]
        range == norm_float32(vector)
    IN IF range = "zero"
       THEN ValueError("ZeroNorm", label)
       ELSE IF range = "inf"
       THEN Ok([vector EXCEPT !.num = [i \in 1..Len(vector.num) |-> 0],
                              !.den = 1, !.exp = 0])
       ELSE Ok([vector EXCEPT !.den = norm.n, !.exp = 0])

\* ---------------------------------------------------------------------------
\* Inputs: thresholds, query sources, detector outputs, store contents
\* ---------------------------------------------------------------------------
\* -0.1, 0, 1/3, 0.55 (the default), 1, 1.5
Thresholds ==
    { [n |-> -1, d |-> 10], [n |-> 0, d |-> 1], [n |-> 1, d |-> 3],
      SIMILARITY_THRESHOLD, [n |-> 1, d |-> 1], [n |-> 3, d |-> 2] }

\* embeddings of integer norm (1, 5, 3, 200, 201, 5, 1); against VecA they score
\* 1, 0.6, 1/3, 0.995, 200/201 = 0.99502..., 0.6 and -1
VecA == <<1>>

VecB == <<3, 4>>

VecC == <<1, 2, 2>>

VecD == <<199, 19, 6, 1, 1>>

VecE == <<200, 20, 1>>

VecG == <<3, 0, 4>>

VecN == <<-1>>

\* the embedding of a JSON payload: pydantic's List[float] admits floats only
\* (NaN included), of any length
\* 3 * 2^70 and 4 * 2^70 are float32 numbers whose squares are not; the square
\* of 2^-80 is below the least subnormal; 2^130 and 2^-200 are Python floats
\* outside the float32 range
BigExp == 70

SmallExp == -80

DoubleExp == 130

TinyExp == -200

Payloads ==
    { List(EMBEDDING_DIM, Floats(VecA)), List(10, Floats(VecB)), List(EMBEDDING_DIM, <<>>),
      List(EMBEDDING_DIM, <<F(1), NaN>>), List(EMBEDDING_DIM + 1, <<NaN>>),
      Scaled(List(EMBEDDING_DIM, Floats(VecB)), BigExp),
      Scaled(List(EMBEDDING_DIM, Floats(VecA)), SmallExp),
      Scaled(List(EMBEDDING_DIM, Floats(VecA)), DoubleExp),
      Scaled(List(EMBEDDING_DIM, Floats(VecA)), TinyExp) }

Face(x1, y1, x2, y2, embedding) == [bbox |-> <<x1, y1, x2, y2>>, embedding |-> embedding]

EmbA == NdArray(EMBEDDING_DIM, Floats(VecA))

EmbB == NdArray(EMBEDDING_DIM, Floats(VecB))

EmbC == NdArray(EMBEDDING_DIM, Floats(VecC))

EmbNaN == NdArray(EMBEDDING_DIM, <<F(1), NaN>>)

EmbZero == NdArray(EMBEDDING_DIM, <<>>)

\* what the detector finds in each decodable upload
Detections(image) ==
    CASE image = "img_noface" -> <<>>
      [] image = "img_two" -> <<Face(0, 0, 10, 10, EmbA), Face(5, 5, 25, 25, EmbB)>>
      [] image = "img_tie" ->
            <<Face(0, 0, 5, 5, EmbC), Face(0, 0, 20, 20, EmbNaN), Face(10, 0, 50, 10, EmbA)>>
      [] image = "img_first" -> <<Face(0, 0, 30, 30, EmbZero), Face(0, 0, 20, 20, EmbB)>>
      [] image = "img_baddim" ->
            <<Face(0, 0, 10, 10, EmbA), Face(0, 0, 20, 20, NdArray(10, Floats(VecA)))>>
      [] image = "img_noemb" -> <<Face(0, 0, 10, 10, None)>>
      [] OTHER -> <<>>

Images ==
    { "img_noface", "img_two", "img_tie", "img_first", "img_baddim", "img_noemb" }

\* file: "none" (no upload), "empty" (zero bytes), "garbage" (undecodable bytes), or
\* the bytes of an image
Files == {"none", "empty", "garbage"} \cup Images

\* the requests: a payload, an upload, neither, or both
Sources ==
    { [payload |-> p, file |-> "none"] : p \in Payloads }
      \cup { [payload |-> None, file |-> f] : f \in Files }
      \cup { [payload |-> List(10, Floats(VecB)), file |-> "img_two"] }

Doc(embedding, name, age) ==
    [type |-> "dict", embedding |-> embedding, name |-> name, age |-> age,
     description |-> "", imageUrl |-> ""]

Good(vec, name, age) == Doc(List(EMBEDDING_DIM, Floats(vec)), name, age)

Item(person_id, person_data) == [person_id |-> person_id, person_data |-> person_data]

\* the records the store may hold, in the order the store enumerates them
Pool ==
    << Item("p01", Good(VecD, "d", 31)),
       Item("p02", Doc(List(10, Floats(VecA)), "short", 0)),
       Item("p03", Good(VecE, "e", 32)),
       Item("p04", [Doc(None, "", 0) EXCEPT !.type = "str"]),
       Item("p05", Good(VecC, "c", 33)),
       Item("p06", Doc(None, "noembedding", 0)),
       Item("p07", Good(VecB, "b", 34)),
       Item("p08", Doc(NotAList, "notalist", 0)),
       Item("p09", Good(VecG, "g", 35)),
       Item("p10", Doc(List(EMBEDDING_DIM, <<F(1), NaN>>), "nan", 0)),
       Item("p11", Good(VecA, "a", 36)),
       Item("p12", Doc(List(EMBEDDING_DIM, <<>>), "zero", 0)),
       Item("p13", Good(VecN, "n", 37)),
       Item("p14", Doc(List(10, <<F(1), Str>>), "text", 0)) >>

\* a record the per-record loop of match_face scores
WellFormed(item) ==
    /\ item.person_data.type = "dict"
    /\ LET v == safe_numpy_embedding(item.person_data.embedding, item.person_id)
       IN v.ok /\ normalize_embedding(v.val, item.person_id).ok

RECURSIVE Pick(_, _)
\* the records of Pool with index in S, in Pool's order
Pick(S, i) ==
    IF i > Len(Pool) THEN <<>>
    ELSE (IF i \in S THEN <<Pool[i]>> ELSE <<>>) \o Pick(S, i + 1)

Snapshots ==
    { Pick(S, 1) : S \in { T \in SUBSET (1..Len(Pool)) :
          /\ Cardinality(T) <= MaxRecords
          /\ Cardinality({i \in T : ~WellFormed(Pool[i])}) <= MaxMalformed } }

\* what ref.get() returns: None for an empty collection, a dict of records, or a
\* list (keys 0..n-1 come back as an array)
StoreValues ==
    { [type |-> "dict", items |-> s] : s \in Snapshots \ {<<>>} }
      \cup { [type |-> "none", items |-> <<>>], [type |-> "list", items |-> <<Pool[1]>>] }

\* ---------------------------------------------------------------------------
\* match_face (470-614)
\* ---------------------------------------------------------------------------
NoResponse == [status |-> 0, kind |-> "", body |-> <<>>]

HTTPException(status, kind) == [status |-> status, kind |-> kind, body |-> <<>>]

\* faulty variant: the upper bound forgotten
threshold_valid_lower(t) == RatGE(t, [n |-> 0, d |-> 1])

\* 519: 0.0 <= threshold <= 1.0 (FastAPI binds threshold as a float)
threshold_valid(t) == RatGE(t, [n |-> 0, d |-> 1]) /\ RatGE([n |-> 1, d |-> 1], t)

\* faulty variant: a record that cannot be scored gets similarity 0 instead of being skipped
record_similarity_fallback(query, item) ==
    [ok |-> TRUE, err |-> "",
     similarity |->
         LET v == safe_numpy_embedding(item.person_data.embedding, item.person_id)
             u == IF v.ok THEN normalize_embedding(v.val, item.person_id) ELSE v
         IN IF u.ok THEN cosine_similarity(query, u.val) ELSE [n |-> 0, d |-> 1]]

\* 573-580: the try block of one record
record_similarity(query, item) ==
    LET label == item.person_id
        stored_raw == item.person_data.embedding
        v == safe_numpy_embedding(stored_raw, label)
        u == IF v.ok THEN normalize_embedding(v.val, label) ELSE v
    IN IF u.ok
       THEN [ok |-> TRUE, err |-> "", similarity |-> cosine_similarity(query, u.val)]
       ELSE [ok |-> FALSE, err |-> u.err, similarity |-> [n |-> 0, d |-> 1]]

\* faulty variant: a strict comparison
above_threshold_strict(similarity, t) == ~RatGE(t, similarity)

\* faulty variant: the comparison turned around
above_threshold_inverted(similarity, t) == RatGE(t, similarity)

\* 583: similarity >= threshold
above_threshold(similarity, t) == RatGE(similarity, t)

\* 584-591
match_entry(item, similarity) ==
    [person_id |-> item.person_id,
     similarity |-> round(similarity),
     name |-> item.person_data.name,
     age |-> item.person_data.age,
     description |-> item.person_data.description,
     imageUrl |-> item.person_data.imageUrl]

RECURSIVE scan_records(_, _, _, _, _)
\* 562-593: the loop over data.items(); acc holds the matches appended and the
\* records skipped (with the reason printed) so far
scan_records(items, i, query, t, acc) ==
    IF i > Len(items) THEN acc
    ELSE LET item == items[i]
             r == record_similarity(query, item)
             next ==
                 IF item.person_data.type # "dict"
                 THEN [acc EXCEPT !.skipped =
                          Append(@, [person_id |-> item.person_id, reason |-> "NotADocument"])]
                 ELSE IF ~r.ok
                 THEN [acc EXCEPT !.skipped =
                          Append(@, [person_id |-> item.person_id, reason |-> r.err])]
                 ELSE IF above_threshold(r.similarity, t)
                 THEN [acc EXCEPT !.matches = Append(@, match_entry(item, r.similarity))]
                 ELSE acc
         IN scan_records(items, i + 1, query, t, next)

\* faulty variant: equal keys end up in reverse order
insert_desc_unstable(sorted, x) ==
    LET c == Cardinality({j \in 1..Len(sorted) :
                 ~RatGE(x.similarity, sorted[j].similarity)})
    IN SubSeq(sorted, 1, c) \o <<x>> \o SubSeq(sorted, c + 1, Len(sorted))

\* the place of x in a list sorted descending by similarity: behind every entry
\* whose key is not smaller (list.sort is stable, also with reverse=True)
insert_desc(sorted, x) ==
    LET c == Cardinality({j \in 1..Len(sorted) : RatGE(sorted[j].similarity, x.similarity)})
    IN SubSeq(sorted, 1, c) \o <<x>> \o SubSeq(sorted, c + 1, Len(sorted))

RECURSIVE sort_fold(_, _, _)
sort_fold(matches, i, sorted) ==
    IF i > Len(matches) THEN sorted
    ELSE sort_fold(matches, i + 1, insert_desc(sorted, matches[i]))

\* 596: matches.sort(key=lambda x: x["similarity"], reverse=True)
sort_matches(matches) == sort_fold(matches, 1, <<>>)

\* faulty variant: no truncation
top_matches_all(matches) == matches

\* 599: matches[:5]
top_matches(matches) ==
    SubSeq(matches, 1, IF Len(matches) < TOP_K THEN Len(matches) ELSE TOP_K)

\* 562-606
rank(items, query, t) ==
    LET scanned == scan_records(items, 1, query, t, [matches |-> <<>>, skipped |-> <<>>])
    IN [matches |-> top_matches(sort_matches(scanned.matches)), skipped |-> scanned.skipped]

\* 601-606
Success(matches, t) ==
    [status |-> 200, kind |-> "success",
     body |-> <<[status |-> "success", matches_found |-> Len(matches),
                 threshold |-> t, matches |-> matches]>>]

\* faulty variant: a store error swallowed as an empty collection
fetch_records_swallow(outcome) ==
    [ok |-> TRUE, error |-> NoResponse,
     data |-> IF outcome.raised \/ outcome.value.type = "none"
              THEN [type |-> "dict", items |-> <<>>] ELSE outcome.value]

\* 553-560: ref.get() or {}; any exception becomes a 500
fetch_records(outcome) ==
    IF outcome.raised
    THEN [ok |-> FALSE, error |-> HTTPException(500, "StoreUnavailable"),
          data |-> [type |-> "dict", items |-> <<>>]]
    ELSE [ok |-> TRUE, error |-> NoResponse,
          data |-> IF outcome.value.type = "none"
                   THEN [type |-> "dict", items |-> <<>>] ELSE outcome.value]

NoData == [type |-> "dict", items |-> <<>>]

\* callers of get_model: 0 is on_startup (382), the others are requests in
\* extract_embedding (251)
Requests == 1..MaxRequests

Callers == {0} \cup Requests

\* on_startup has returned (383-387): both handles are there
Serving ==
    /\ startup = "ready"
    /\ firebase_apps = 1
    /\ _model = "loaded"
    /\ constructed = 1
    /\ calls = [c \in Callers |-> "idle"]

\* no request is being handled
IdleRequest ==
    /\ pc = "idle"
    /\ threshold = SIMILARITY_THRESHOLD
    /\ payload = None
    /\ file = "none"
    /\ detected = <<>>
    /\ largest_face = 0
    /\ query_embedding_raw = None
    /\ query_embedding = NoVector
    /\ data = NoData
    /\ skipped = <<>>
    /\ response = NoResponse
    /\ storeCalls = 0
    /\ storeErrors = 0
    /\ detectorCalls = 0

\* the server after startup, before the first request
Init == IdleRequest /\ Serving

\* a request arrives: FastAPI binds payload, file and threshold
ReceiveRequest ==
    /\ UNCHANGED process_vars
    /\ pc = "idle"
    /\ \E src \in Sources, t \in Thresholds :
          /\ payload' = src.payload
          /\ file' = src.file
          /\ threshold' = t
    /\ pc' = "check_threshold"
    /\ detected' = <<>>
    /\ largest_face' = 0
    /\ query_embedding_raw' = None
    /\ query_embedding' = NoVector
    /\ data' = NoData
    /\ skipped' = <<>>
    /\ response' = NoResponse
    /\ storeCalls' = 0
    /\ storeErrors' = 0
    /\ detectorCalls' = 0

Fail(error) ==
    /\ response' = error
    /\ pc' = "done"

\* 518-523
CheckThreshold ==
    /\ UNCHANGED process_vars
    /\ pc = "check_threshold"
    /\ IF threshold_valid(threshold)
       THEN pc' = "build_query" /\ UNCHANGED response
       ELSE Fail(HTTPException(400, "InvalidThreshold"))
    /\ UNCHANGED <<threshold, payload, file, detected, largest_face, query_embedding_raw,
                   query_embedding, data, skipped, storeCalls, storeErrors, detectorCalls>>

\* 525-542, up to the call of extract_embedding
BuildQuery ==
    /\ UNCHANGED process_vars
    /\ pc = "build_query"
    /\ IF payload.type # "none"
       THEN /\ query_embedding_raw' = payload
            /\ pc' = "validate_query"
            /\ UNCHANGED response
       ELSE IF file # "none"
       THEN /\ UNCHANGED query_embedding_raw
            /\ IF file = "empty"
               THEN Fail(HTTPException(400, "EmptyFile"))
               ELSE LET image == decode_image(file)
                    IN IF image.ok
                       THEN pc' = "extract" /\ UNCHANGED response
                       ELSE Fail(HTTPException(image.status, image.kind))
       ELSE /\ UNCHANGED query_embedding_raw
            /\ Fail(HTTPException(400, "MissingInput"))
    /\ UNCHANGED <<threshold, payload, file, detected, largest_face, query_embedding,
                   data, skipped, storeCalls, storeErrors, detectorCalls>>

\* 537: extract_embedding(image); the detector returns the faces or raises
ExtractEmbedding ==
    /\ UNCHANGED process_vars
    /\ pc = "extract"
    /\ \E raised \in BOOLEAN :
          LET got == [raised |-> raised,
                      faces |-> IF raised THEN <<>> ELSE Detections(file)]
              r == extract_embedding(got)
          IN /\ detected' = got.faces
             /\ largest_face' = r.largest
             /\ IF r.status = 200
                THEN /\ query_embedding_raw' = r.embedding
                     /\ pc' = "validate_query"
                     /\ UNCHANGED response
                ELSE /\ UNCHANGED query_embedding_raw
                     /\ Fail(HTTPException(r.status, r.kind))
    /\ detectorCalls' = detectorCalls + 1
    /\ UNCHANGED <<threshold, payload, file, query_embedding, data, skipped, storeCalls,
                   storeErrors>>

\* 544-548
ValidateQuery ==
    /\ UNCHANGED process_vars
    /\ pc = "validate_query"
    /\ LET v == safe_numpy_embedding(query_embedding_raw, "Query embedding")
           u == IF v.ok THEN normalize_embedding(v.val, "Query embedding") ELSE v
       IN IF u.ok
          THEN /\ query_embedding' = u.val
               /\ pc' = "fetch"
               /\ UNCHANGED response
          ELSE /\ UNCHANGED query_embedding
               /\ Fail(HTTPException(400, u.err))
    /\ UNCHANGED <<threshold, payload, file, detected, largest_face, query_embedding_raw,
                   data, skipped, storeCalls, storeErrors, detectorCalls>>

\* 552-560: the one call of the store
FetchRecords ==
    /\ UNCHANGED process_vars
    /\ pc = "fetch"
    /\ \E outcome \in { [raised |-> TRUE, value |-> [type |-> "none", items |-> <<>>]] }
                        \cup { [raised |-> FALSE, value |-> v] : v \in StoreValues } :
          LET got == fetch_records(outcome)
          IN /\ storeErrors' = IF outcome.raised THEN storeErrors + 1 ELSE storeErrors
             /\ IF got.ok
                THEN /\ data' = got.data
                     /\ pc' = "rank"
                     /\ UNCHANGED response
                ELSE /\ UNCHANGED data
                     /\ Fail(got.error)
    /\ storeCalls' = storeCalls + 1
    /\ UNCHANGED <<threshold, payload, file, detected, largest_face, query_embedding_raw,
                   query_embedding, skipped, detectorCalls>>

\* 562-614: a list has no .items(), which the outer handler turns into a 500
RankMatches ==
    /\ UNCHANGED process_vars
    /\ pc = "rank"
    /\ IF data.type # "dict"
       THEN /\ Fail(HTTPException(500, "InternalError"))
            /\ UNCHANGED skipped
       ELSE LET ranked == rank(data.items, query_embedding, threshold)
            IN /\ skipped' = ranked.skipped
               /\ response' = Success(ranked.matches, threshold)
               /\ pc' = "done"
    /\ UNCHANGED <<threshold, payload, file, detected, largest_face, query_embedding_raw,
                   query_embedding, data, storeCalls, storeErrors, detectorCalls>>

\* the response (or the HTTPException) leaves the handler; its locals are gone
SendResponse ==
    /\ UNCHANGED process_vars
    /\ pc = "done"
    /\ pc' = "idle"
    /\ threshold' = SIMILARITY_THRESHOLD
    /\ payload' = None
    /\ file' = "none"
    /\ detected' = <<>>
    /\ largest_face' = 0
    /\ query_embedding_raw' = None
    /\ query_embedding' = NoVector
    /\ data' = NoData
    /\ skipped' = <<>>
    /\ response' = NoResponse
    /\ storeCalls' = 0
    /\ storeErrors' = 0
    /\ detectorCalls' = 0

Next ==
    \/ ReceiveRequest
    \/ CheckThreshold
    \/ BuildQuery
    \/ ExtractEmbedding
    \/ ValidateQuery
    \/ FetchRecords
    \/ RankMatches
    \/ SendResponse

Spec == Init /\ [][Next]_vars

\* ---------------------------------------------------------------------------
\* Startup and the two shared handles: init_firebase (46-143), get_model
\* (149-192), on_startup (368-394)
\* ---------------------------------------------------------------------------
\* the process has been started and the server runs the startup handler
ProcessStart ==
    /\ IdleRequest
    /\ startup = "init_firebase"
    /\ firebase_apps = 0
    /\ _model = "None"
    /\ constructed = 0
    /\ calls = [c \in Callers |-> "idle"]

\* faulty variant: on_startup logs the exception and returns
on_startup_swallow == "ready"

\* 389-394: on_startup re-raises what init_firebase or get_model raised, and
\* the server started with a failed startup handler exits
on_startup_except == "failed"

\* 368: the server calls the handlers registered for "startup" and waits for
\* them before it takes the first request
serving(state) == state = "ready"

\* 164-165
get_model_test(model) == IF model # "None" THEN "returned" ELSE "construct"

\* 378: init_firebase returns at once if an app exists (64-67), else it raises
\* RuntimeError on a configuration error or initializes the app (69-143)
InitFirebase ==
    /\ startup = "init_firebase"
    /\ IF firebase_apps > 0
       THEN /\ startup' = "get_model"
            /\ calls' = [calls EXCEPT ![0] = "test"]
            /\ UNCHANGED firebase_apps
       ELSE \E raised \in BOOLEAN :
               IF raised
               THEN /\ startup' = on_startup_except
                    /\ UNCHANGED <<firebase_apps, calls>>
               ELSE /\ firebase_apps' = firebase_apps + 1
                    /\ startup' = "get_model"
                    /\ calls' = [calls EXCEPT ![0] = "test"]
    /\ UNCHANGED <<_model, constructed, request_vars>>

\* 164-165: if _model is not None: return _model
GetModelTest(c) ==
    /\ calls[c] = "test"
    /\ calls' = [calls EXCEPT ![c] = get_model_test(_model)]
    /\ UNCHANGED <<startup, firebase_apps, _model, constructed, request_vars>>

\* 171-175: FaceAnalysis(name="buffalo_l") and prepare; whatever they raise
\* leaves get_model as RuntimeError (181-191)
GetModelConstruct(c) ==
    /\ calls[c] = "construct"
    /\ constructed < MaxConstructed
    /\ constructed' = constructed + 1
    /\ \E raised \in BOOLEAN :
          calls' = [calls EXCEPT ![c] = IF raised THEN "raised" ELSE "assign"]
    /\ UNCHANGED <<startup, firebase_apps, _model, request_vars>>

\* 177-181: _model = model; return _model
GetModelAssign(c) ==
    /\ calls[c] = "assign"
    /\ _model' = "loaded"
    /\ calls' = [calls EXCEPT ![c] = "returned"]
    /\ UNCHANGED <<startup, firebase_apps, constructed, request_vars>>

\* 382-394: get_model came back to on_startup
StartupReturn ==
    /\ startup = "get_model"
    /\ calls[0] \in {"returned", "raised"}
    /\ startup' = IF calls[0] = "returned" THEN "ready" ELSE on_startup_except
    /\ calls' = [calls EXCEPT ![0] = "idle"]
    /\ UNCHANGED <<firebase_apps, _model, constructed, request_vars>>

\* 251: a request with an image reaches model = get_model()
CallGetModel(r) ==
    /\ serving(startup)
    /\ calls[r] = "idle"
    /\ calls' = [calls EXCEPT ![r] = "test"]
    /\ UNCHANGED <<startup, firebase_apps, _model, constructed, request_vars>>

\* 252-288: the request goes on with the handle, or ends with 500 (283-288)
RequestReturn(r) ==
    /\ calls[r] \in {"returned", "raised"}
    /\ calls' = [calls EXCEPT ![r] = "idle"]
    /\ UNCHANGED <<startup, firebase_apps, _model, constructed, request_vars>>

NextStartup ==
    \/ InitFirebase
    \/ \E c \in Callers : GetModelTest(c)
    \/ \E c \in Callers : GetModelConstruct(c)
    \/ \E c \in Callers : GetModelAssign(c)
    \/ StartupReturn
    \/ \E r \in Requests : CallGetModel(r)
    \/ \E r \in Requests : RequestReturn(r)

SpecStartup == ProcessStart /\ [][NextStartup]_vars

\* ---------------------------------------------------------------------------
\* Properties
\* ---------------------------------------------------------------------------
RatEQ(a, b) == a.n * b.d = b.n * a.d

Succeeded == pc = "done" /\ response.status = 200 /\ Len(response.body) = 1

Body == response.body[1]

\* the place of a record in the store's enumeration
StoreIndex(person_id) ==
    CHOOSE k \in 1..Len(data.items) : data.items[k].person_id = person_id

\* the score the scorer computed for a returned match, before rounding
Score(m) == record_similarity(query_embedding, data.items[StoreIndex(m.person_id)]).similarity

\* the six kinds of malformed record, read off the stored document
Malformed(item) ==
    \/ item.person_data.type # "dict"
    \/ item.person_data.embedding.type # "list"
    \/ item.person_data.embedding.len # 512
    \/ \E i \in 1..Len(item.person_data.embedding.head) :
          item.person_data.embedding.head[i].k # "float"
    \/ \A i \in 1..Len(item.person_data.embedding.head) :
          item.person_data.embedding.head[i].v = 0

\* the records that pass the threshold, in enumeration order
Passing == { k \in 1..Len(data.items) :
                /\ ~Malformed(data.items[k])
                /\ RatGE(record_similarity(query_embedding, data.items[k]).similarity,
                         threshold) }

\* C1: a successful /match-face response has at most 5 matches, and matches_found
\* is the length of the returned list
C1_AtMostFive ==
    Succeeded => /\ Len(Body.matches) <= 5
                 /\ Body.matches_found = Len(Body.matches)

\* C1 witness: six or more records pass the threshold and five are returned
C1_Witness ==
    /\ Succeeded
    /\ Cardinality(Passing) >= 6
    /\ Body.matches_found = 5

\* C2 as stated: matches are ordered descending by the computed score, and equal
\* scores keep the store's enumeration order
C2_OrderedByComputedScore ==
    Succeeded =>
        \A i, j \in 1..Len(Body.matches) :
            i < j =>
                /\ RatGE(Score(Body.matches[i]), Score(Body.matches[j]))
                /\ RatEQ(Score(Body.matches[i]), Score(Body.matches[j]))
                      => StoreIndex(Body.matches[i].person_id)
                            < StoreIndex(Body.matches[j].person_id)

\* C2 amended: every returned similarity is the computed score rounded to four
\* decimals; matches are ordered descending by the returned similarity, and
\* matches of equal returned similarity keep the store's enumeration order
C2_OrderedByReturnedSimilarity ==
    Succeeded =>
        /\ \A i \in 1..Len(Body.matches) :
              Body.matches[i].similarity = round(Score(Body.matches[i]))
        /\ \A i, j \in 1..Len(Body.matches) :
              i < j =>
                /\ Body.matches[i].similarity.n >= Body.matches[j].similarity.n
                /\ Body.matches[i].similarity.n = Body.matches[j].similarity.n
                      => StoreIndex(Body.matches[i].person_id)
                            < StoreIndex(Body.matches[j].person_id)

\* C2 witness: two returned matches of equal returned similarity, the first with
\* the smaller computed score
C2_Witness ==
    /\ Succeeded
    /\ \E i, j \in 1..Len(Body.matches) :
          /\ i < j
          /\ Body.matches[i].similarity = Body.matches[j].similarity
          /\ ~RatGE(Score(Body.matches[i]), Score(Body.matches[j]))

\* a candidate is returned, or five candidates that sort before it are
Kept(k) ==
    \/ \E i \in 1..Len(Body.matches) : Body.matches[i].person_id = data.items[k].person_id
    \/ /\ Len(Body.matches) = 5
       /\ \A i \in 1..5 :
             RatGE(Body.matches[i].similarity,
                   round(record_similarity(query_embedding, data.items[k]).similarity))

\* C3 as stated: every returned match carries a similarity >= threshold, a
\* candidate scoring exactly the threshold is kept, one scoring below it never
\* appears
C3_CarriedSimilarityAboveThreshold ==
    Succeeded =>
        /\ \A i \in 1..Len(Body.matches) : RatGE(Body.matches[i].similarity, threshold)
        /\ \A i \in 1..Len(Body.matches) : RatGE(Score(Body.matches[i]), threshold)
        /\ \A k \in Passing : Kept(k)

\* C3 amended: every returned match has a computed score >= threshold and carries
\* that score rounded to four decimals, which is >= the threshold rounded to four
\* decimals; a candidate scoring exactly the threshold is kept (unless five
\* candidates sort before it); one scoring below the threshold never appears
C3_ScoreAboveThreshold ==
    Succeeded =>
        /\ \A i \in 1..Len(Body.matches) :
              /\ RatGE(Score(Body.matches[i]), threshold)
              /\ RatGE(Body.matches[i].similarity, round(threshold))
        /\ \A k \in Passing : Kept(k)

\* C3 witness: a returned match scores exactly the threshold and carries a
\* similarity below it
C3_Witness ==
    /\ Succeeded
    /\ \E i \in 1..Len(Body.matches) :
          /\ RatEQ(Score(Body.matches[i]), threshold)
          /\ ~RatGE(Body.matches[i].similarity, threshold)

ValidThresholds == { t \in Thresholds : t.n >= 0 /\ t.n <= t.d }

\* matches_found of the same query and store snapshot under threshold t
FoundAt(t) == Len(rank(data.items, query_embedding, t).matches)

\* C4: for the query and the snapshot of a successful request, a higher
\* threshold never finds more matches and a lower one never fewer
C4_ThresholdMonotone ==
    Succeeded =>
        \A t \in ValidThresholds :
            /\ RatGE(t, threshold) => FoundAt(t) <= Body.matches_found
            /\ RatGE(threshold, t) => FoundAt(t) >= Body.matches_found

\* C4 witness: a higher threshold finds strictly fewer matches, yet some
C4_Witness ==
    /\ Succeeded
    /\ \E t \in ValidThresholds :
          /\ RatGE(t, threshold)
          /\ FoundAt(t) < Body.matches_found
          /\ FoundAt(t) > 0

RECURSIVE WithoutMalformed(_)
WithoutMalformed(items) ==
    IF items = <<>> THEN <<>>
    ELSE (IF Malformed(Head(items)) THEN <<>> ELSE <<Head(items)>>)
            \o WithoutMalformed(Tail(items))

\* C5: once the store returned its records the request succeeds whatever records
\* are malformed; no malformed record is returned, each is skipped, and the
\* matches are those of the snapshot without the malformed records
C5_MalformedSkipped ==
    (pc = "done" /\ storeCalls = 1 /\ storeErrors = 0 /\ data.type = "dict") =>
        /\ Succeeded
        /\ \A i \in 1..Len(Body.matches) :
              ~Malformed(data.items[StoreIndex(Body.matches[i].person_id)])
        /\ \A k \in 1..Len(data.items) :
              Malformed(data.items[k])
                 <=> \E i \in 1..Len(skipped) :
                        skipped[i].person_id = data.items[k].person_id
        /\ Body.matches = rank(WithoutMalformed(data.items), query_embedding, threshold).matches

\* C5 witness: a snapshot of one malformed and three or more well-formed records,
\* with matches returned
C5_Witness ==
    /\ Succeeded
    /\ Len(skipped) >= 1
    /\ Len(data.items) >= 4
    /\ Body.matches_found >= 2

\* the threshold lies outside [0, 1]
OutOfRange(t) == t.n < 0 \/ t.n > t.d

\* C6: a request whose threshold is outside [0,1] ends with 400 InvalidThreshold,
\* and at no point of it is the store or the detector called
C6_InvalidThresholdFirst ==
    (pc # "idle" /\ OutOfRange(threshold)) =>
        /\ storeCalls = 0
        /\ detectorCalls = 0
        /\ pc \in {"check_threshold", "done"}
        /\ pc = "done" => /\ response.status = 400
                          /\ response.kind = "InvalidThreshold"
                          /\ response.body = <<>>

\* C6 witness: a request with an upload and threshold 1.5 has ended
C6_Witness ==
    /\ pc = "done"
    /\ threshold = [n |-> 3, d |-> 2]
    /\ file \in Images
    /\ response.status = 400

\* the elements a list or array holds are all finite floats
AllFinite(e) == \A i \in 1..Len(e.head) : e.head[i].k = "float"

\* the elements are all zero
AllZero(e) == \A i \in 1..Len(e.head) : e.head[i].k = "float" /\ e.head[i].v = 0

\* the request with an in-range threshold takes its query from the upload, and
\* the detector returned
FromImage ==
    /\ ~OutOfRange(threshold)
    /\ payload.type = "none"
    /\ file \in Images
    /\ detectorCalls = 1
    /\ response.kind # "ExtractionError"

\* the status the request ends with on each validation failure of the query
\* path; dimStatus is the status of a dimension mismatch of the detector's vector
QueryFailures(dimStatus) ==
    pc = "done" =>
        /\ OutOfRange(threshold) => response.status = 400
        /\ (~OutOfRange(threshold) /\ payload.type = "list"
              /\ (payload.len # 512 \/ ~AllFinite(payload) \/ AllZero(payload)))
             => response.status = 400
        /\ (~OutOfRange(threshold) /\ payload.type = "none" /\ file = "garbage")
             => response.status = 400
        /\ (FromImage /\ Len(detected) = 0) => response.status = 400
        /\ (FromImage /\ Len(detected) > 0
              /\ detected[largest_face].embedding.type = "ndarray")
             => LET e == detected[largest_face].embedding
                IN /\ e.len # 512 => response.status = dimStatus
                   /\ (e.len = 512 /\ (~AllFinite(e) \/ AllZero(e)))
                        => response.status = 400

\* C7 as stated: every validation failure of the query path (decode failure, no
\* face, dimension mismatch, non-finite value, zero norm, invalid threshold) ends
\* the request with 400, for both query sources
C7_ValidationFailuresAre400 == QueryFailures(400)

\* C7 amended: every validation failure of the query path ends the request with
\* 400, except a dimension mismatch of the detector's vector on the upload path,
\* which extract_embedding reports as 500
C7_ValidationFailuresExceptDetectorDim == QueryFailures(500)

\* C7 witness: an upload whose largest face has a 10-element vector ended with 500
C7_Witness ==
    /\ pc = "done"
    /\ FromImage
    /\ Len(detected) > 0
    /\ detected[largest_face].embedding.len = 10
    /\ response.status = 500

\* C8: the store is called at most once per request; when the call raises, the
\* request ends at once with a 500 and no Match Set
C8_StoreErrorIsFatal ==
    /\ storeCalls <= 1
    /\ storeErrors > 0 => /\ pc = "done"
                          /\ response.status = 500
                          /\ response.body = <<>>

\* C8 witness: the store call of a request raised
C8_Witness ==
    /\ storeErrors = 1
    /\ pc = "done"
    /\ response.status = 500

\* bounding-box area, (x2-x1)*(y2-y1)
BoxArea(b) == (b[3] - b[1]) * (b[4] - b[2])

\* C9: with one or more detected regions extract_embedding uses the first region
\* of maximal bounding-box area; with none it fails with NoFaceDetected
C9_LargestFaceFirst ==
    (detectorCalls = 1 /\ pc # "extract") =>
        /\ (Len(detected) = 0 /\ response.kind # "ExtractionError")
              => /\ pc = "done"
                 /\ response.status = 400
                 /\ response.kind = "NoFaceDetected"
        /\ Len(detected) > 0 =>
              /\ largest_face \in 1..Len(detected)
              /\ \A j \in 1..Len(detected) :
                    BoxArea(detected[j].bbox) <= BoxArea(detected[largest_face].bbox)
              /\ \A j \in 1..(largest_face - 1) :
                    BoxArea(detected[j].bbox) < BoxArea(detected[largest_face].bbox)
              /\ query_embedding_raw.type = "list" =>
                    /\ query_embedding_raw.len = detected[largest_face].embedding.len
                    /\ query_embedding_raw.head = detected[largest_face].embedding.head

\* C9 witness: two regions share the maximal area and the first of them is used
C9_Witness ==
    /\ detectorCalls = 1
    /\ Len(detected) = 3
    /\ largest_face = 2
    /\ BoxArea(detected[2].bbox) = BoxArea(detected[3].bbox)
    /\ query_embedding_raw.head = detected[2].embedding.head
    /\ query_embedding_raw.type = "list"

\* the reason match_face printed when it skipped the record
SkipReason(person_id) ==
    LET i == CHOOSE i \in 1..Len(skipped) : skipped[i].person_id = person_id
    IN skipped[i].reason

\* the stored records whose embedding is a list of a wrong length
WrongLength == { k \in 1..Len(data.items) :
                    /\ data.items[k].person_data.type = "dict"
                    /\ data.items[k].person_data.embedding.type = "list"
                    /\ data.items[k].person_data.embedding.len # 512 }

QueryValidated == pc \in {"fetch", "rank", "done"} /\ query_embedding_raw.type = "list"

\* C10 as stated: every list of a length other than 512 is rejected with
\* DimensionMismatch, whatever its elements are
C10_WrongLengthIsDimensionMismatch ==
    /\ (QueryValidated /\ query_embedding_raw.len # 512)
          => pc = "done" /\ response.kind = "DimensionMismatch"
    /\ Succeeded =>
          \A k \in WrongLength :
              SkipReason(data.items[k].person_id) = "DimensionMismatch"

\* an element float32 conversion rejects
HasText(e) == \E i \in 1..Len(e.head) : e.head[i].k = "str"

\* C10 amended: every list of a length other than 512 is rejected; the error is
\* DimensionMismatch when every element converts to a float (finite or not,
\* never NonFiniteValue), and the non-numeric error when some element does not
C10_WrongLengthRejected ==
    /\ (QueryValidated /\ query_embedding_raw.len # 512)
          => /\ pc = "done"
             /\ response.status = 400
             /\ response.kind =
                   IF HasText(query_embedding_raw) THEN "NonNumeric" ELSE "DimensionMismatch"
    /\ Succeeded =>
          \A k \in WrongLength :
              /\ \A i \in 1..Len(Body.matches) :
                    Body.matches[i].person_id # data.items[k].person_id
              /\ SkipReason(data.items[k].person_id) =
                    IF HasText(data.items[k].person_data.embedding)
                    THEN "NonNumeric" ELSE "DimensionMismatch"

\* C10 witness: a query of 513 elements, one of them NaN, was rejected with
\* DimensionMismatch
C10_Witness ==
    /\ pc = "done"
    /\ query_embedding_raw.type = "list"
    /\ query_embedding_raw.len = 513
    /\ ~AllFinite(query_embedding_raw)
    /\ response.kind = "DimensionMismatch"

\* ---------------------------------------------------------------------------
\* C11
\* ---------------------------------------------------------------------------
\* what safe_numpy_embedding hands to normalize_embedding for the query (547-548)
Validated == safe_numpy_embedding(query_embedding_raw, "Query embedding")

\* the query went through validation, and the validated vector is a finite
\* float32 vector of length 512 that is not all zeros
NormalizeInput ==
    /\ QueryValidated
    /\ Validated.ok
    /\ \E i \in 1..Len(Validated.val.num) : Validated.val.num[i] # 0

\* the L2 norm of a vector is 1 within 1e-6
UnitNorm(v) ==
    /\ v.exp = 0
    /\ Abs(Sqrt(SumSq(v.num)) - v.den) * Pow10(6) <= v.den

\* C11 as stated: for every finite non-zero vector of length 512
\* normalize_embedding returns a vector (it does not raise) whose L2 norm is 1
\* within 1e-6, and normalize_embedding of that result returns the result again
C11_NormalizeUnitIdempotent ==
    NormalizeInput =>
        /\ response.kind # "ZeroNorm"
        /\ UnitNorm(query_embedding)
        /\ normalize_embedding(query_embedding, "Query embedding") = Ok(query_embedding)

\* the same for the vectors whose sum of squares float32 can hold: the code
\* normalizes these as the claim says
C11_InRange ==
    (NormalizeInput /\ norm_float32(Validated.val) = "finite") =>
        /\ response.kind # "ZeroNorm"
        /\ UnitNorm(query_embedding)
        /\ normalize_embedding(query_embedding, "Query embedding") = Ok(query_embedding)

\* ---------------------------------------------------------------------------
\* C12
\* ---------------------------------------------------------------------------
\* requests that are inside get_model or have just left it
InGetModel == { r \in Requests : calls[r] # "idle" }

\* C12: the detector handle and the store connection are each initialized
\* exactly once, by on_startup and before any request is served: the detector
\* is constructed at most once and the store app initialized at most once; a
\* request that calls get_model runs after a startup that initialized both,
\* finds the handle and never constructs the detector itself; and after a
\* failed startup no request is served
C12_InitializedOnceAtStartup ==
    /\ constructed <= 1
    /\ firebase_apps <= 1
    /\ startup = "ready" => (constructed = 1 /\ firebase_apps = 1 /\ _model = "loaded")
    /\ InGetModel # {} => startup = "ready"
    /\ \A r \in Requests : calls[r] \in {"idle", "test", "returned"}
    /\ startup = "failed" => InGetModel = {}

\* startup is over, and of three concurrent requests two got the handle from
\* get_model while the third is about to test it
C12_Witness ==
    /\ startup = "ready"
    /\ constructed = 1
    /\ Cardinality({ r \in Requests : calls[r] = "returned" }) >= 2
    /\ \E r \in Requests : calls[r] = "test"

====
